---- MODULE Spec2Model ----
(***************************************************************************)
(* Model of utils/data_utils.py: the length-bucketed sampler              *)
(* (CustomSampler), the example assembler (TextMelLoader.get_data) and    *)
(* the batch collator (TextMelCollate.__call__).                          *)
(*                                                                         *)
(* Python values are modelled as follows.  A tuple or list is a sequence; *)
(* dataset indices keep their 0-based values.  An optional value is a     *)
(* sequence of length at most one: None is <<>>, a present value x is     *)
(* <<x>>.  A 2-D array is a sequence of rows.                             *)
(***************************************************************************)
EXTENDS Integers, Sequences, FiniteSets, TLC

VARIABLES
    text_lengths,   \* CustomSampler.__init__: len(elem[1]) of every record
    len_diff,       \* CustomSampler.__init__: the len_diff argument
    sampler,        \* the CustomSampler object: optimize, shuffle, batchsize, optimized_idxs, idxs
    baseline,       \* history: the value bound to self.idxs at line 98
    pc,             \* which operation of the scenario has run
    gens,           \* the generator objects made by CustomSampler.__iter__
    reshuffles,     \* history: number of calls of CustomSampler.reshuffle
    batch,          \* TextMelCollate.__call__: the list of examples
    collated,       \* TextMelCollate.__call__: what the call returned
    hparams,        \* TextMelLoader: the fields __init__ copies from hparams
    sample,         \* TextMelLoader.get_data: the record and what the services return for it
    outcome         \* TextMelLoader.get_data: what the call returned or raised

vars == <<text_lengths, len_diff, sampler, baseline, pc, gens, reshuffles,
          batch, collated, hparams, sample, outcome>>

samplerVars == <<text_lengths, len_diff, sampler, baseline, gens, reshuffles>>
collateVars == <<batch, collated>>
loaderVars  == <<hparams, sample, outcome>>

\* Value of a variable that a scenario does not use.
Unused == <<>>

\* Initial condition of the variables of a component the scenario leaves out.
NoSampler ==
    /\ text_lengths = Unused
    /\ len_diff = Unused
    /\ sampler = Unused
    /\ baseline = Unused
    /\ gens = Unused
    /\ reshuffles = 0
NoCollate == batch = Unused /\ collated = Unused
NoLoader == hparams = Unused /\ sample = Unused /\ outcome = Unused

(***************************************************************************)
(* Bounds of the model.                                                    *)
(***************************************************************************)
MaxN == 3            \* records in the dataset
MaxLength == 4       \* transcript length of a record
MaxLenDiff == 2      \* len_diff ranges over 0..MaxLenDiff
MaxBatchsize == 2    \* batchsize ranges over 1..MaxBatchsize
MaxReshuffles == 2   \* reshuffle calls counted per run
MaxIterN == 2        \* records in the dataset of an iterated sampler
MaxBatchLen == 2     \* examples in a batch given to the collator
MaxSymLen == 2       \* symbols of an example
MaxMelLen == 2       \* mel frames of an example
MaxCtcLen == 1       \* symbols of an example's auxiliary (CTC) sequence

(***************************************************************************)
(* Generic helpers.                                                        *)
(***************************************************************************)
None == <<>>
Some(x) == <<x>>

Range(s) == {s[i] : i \in 1..Len(s)}

NoDup(s) == \A i, j \in 1..Len(s) : s[i] = s[j] => i = j

\* itertools.chain(*seqs)
RECURSIVE chain(_)
chain(seqs) == IF seqs = <<>> THEN <<>> ELSE Head(seqs) \o chain(Tail(seqs))

\* tuple(range(n))
range(n) == [i \in 1..n |-> i - 1]

\* All sequences over S of length lo..hi
SeqsOf(S, lo, hi) == UNION {[1..n -> S] : n \in lo..hi}

(***************************************************************************)
(* CustomSampler.__init__, the bucketing part (lines 74-96).               *)
(***************************************************************************)
\* zip(text_lengths, idxs): pairs <<length, idx>>
lengths_idxs_pairs(lengths) == [i \in 1..Len(lengths) |-> <<lengths[i], i - 1>>]

\* One insertion of Python's stable sort: p goes before the first element
\* whose key is strictly greater.
RECURSIVE InsertByKey(_, _)
InsertByKey(s, p) ==
    IF s = <<>> THEN <<p>>
    ELSE IF p[1] < Head(s)[1] THEN <<p>> \o s
    ELSE <<Head(s)>> \o InsertByKey(Tail(s), p)

\* sorted(pairs, key=lambda elem: elem[0])
RECURSIVE sorted(_)
sorted(pairs) ==
    IF pairs = <<>> THEN <<>>
    ELSE InsertByKey(sorted(SubSeq(pairs, 1, Len(pairs) - 1)), pairs[Len(pairs)])

\* BucketStep with the window closed on the right (length <= max_len).
BucketStepInclusive(st, pairs, j, ld) ==
    LET length == pairs[j][1]
        idx    == pairs[j][2]
    IN  IF st.min_len <= length /\ length <= st.max_len
        THEN LET appended == Append(st.len_idxs, idx)
             IN  [st EXCEPT !.len_idxs = appended,
                            !.optimized_idxs =
                                IF j = Len(pairs) /\ appended # <<>>
                                THEN Append(@, appended) ELSE @]
        ELSE [len_idxs       |-> <<idx>>,
              min_len        |-> length,
              max_len        |-> length + ld,
              optimized_idxs |-> Append(st.optimized_idxs, st.len_idxs)]

\* The body of the for loop at lines 85-94, for the j-th pair (1-based).
\* st holds the loop's locals and self.optimized_idxs.
BucketStep(st, pairs, j, ld) ==
    LET length == pairs[j][1]
        idx    == pairs[j][2]
    IN  IF st.min_len <= length /\ length < st.max_len
        THEN LET appended == Append(st.len_idxs, idx)
             IN  [st EXCEPT !.len_idxs = appended,
                            !.optimized_idxs =
                                IF j = Len(pairs) /\ appended # <<>>
                                THEN Append(@, appended) ELSE @]
        ELSE [len_idxs       |-> <<idx>>,
              min_len        |-> length,
              max_len        |-> length + ld,
              optimized_idxs |-> Append(st.optimized_idxs, st.len_idxs)]

RECURSIVE BucketLoop(_, _, _, _)
BucketLoop(st, pairs, j, ld) ==
    IF j > Len(pairs) THEN st
    ELSE BucketLoop(BucketStep(st, pairs, j, ld), pairs, j + 1, ld)

\* self.optimized_idxs after lines 75-94
Buckets(lengths, ld) ==
    LET pairs == sorted(lengths_idxs_pairs(lengths))
        min_length == pairs[1][1]
        st0 == [len_idxs |-> <<>>, min_len |-> min_length,
                max_len |-> min_length + ld, optimized_idxs |-> <<>>]
    IN  BucketLoop(st0, pairs, 1, ld).optimized_idxs

(***************************************************************************)
(* CustomSampler.reshuffle (lines 116-133).  torch.randperm is a random   *)
(* source: every operator below yields the set of all its outcomes.       *)
(***************************************************************************)
\* _torch_shuffle(iterable), lines 117-118
torch_shuffle(s) ==
    {[i \in 1..Len(s) |-> s[p[i]]] : p \in Permutations(1..Len(s))}

\* tuple(_torch_shuffle(elem) for elem in self.optimized_idxs), line 121
RECURSIVE ShuffleEach(_)
ShuffleEach(bs) ==
    IF bs = <<>> THEN {<<>>}
    ELSE {<<h>> \o t : h \in torch_shuffle(Head(bs)), t \in ShuffleEach(Tail(bs))}

\* Rebatch keeping the incomplete trailing chunk.
RebatchKeepTail(flat, B) ==
    LET batches == (Len(flat) + B - 1) \div B
    IN  [i \in 1..batches |->
            SubSeq(flat, (i - 1) * B + 1, IF i * B <= Len(flat) THEN i * B ELSE Len(flat))]

\* lines 127-128: the batch-sized chunks of the flattened order
Rebatch(flat, B) ==
    LET batches == Len(flat) \div B
    IN  [i \in 1..batches |-> SubSeq(flat, (i - 1) * B + 1, i * B)]

\* Every value reshuffle can bind to self.idxs.
reshuffle(self) ==
    IF self.optimize
    THEN UNION {UNION {{chain(c) : c \in torch_shuffle(Rebatch(chain(outer), self.batchsize))}
                       : outer \in torch_shuffle(inner)}
                : inner \in ShuffleEach(self.optimized_idxs)}
    ELSE torch_shuffle(self.idxs)

(***************************************************************************)
(* CustomSampler.__init__ (lines 66-101).                                  *)
(***************************************************************************)
\* The value of the local idxs at line 98
InitIdxs(lengths, opt, ld) ==
    IF opt THEN chain(Buckets(lengths, ld)) ELSE range(Len(lengths))

\* Every sampler object __init__ can build from its arguments.
New(lengths, B, sh, opt, ld) ==
    LET s0 == [optimize       |-> opt,
               shuffle        |-> sh,
               batchsize      |-> B,
               optimized_idxs |-> IF opt THEN Buckets(lengths, ld) ELSE <<>>,
               idxs           |-> InitIdxs(lengths, opt, ld)]
    IN  IF sh THEN {[s0 EXCEPT !.idxs = r] : r \in reshuffle(s0)} ELSE {s0}

\* The arguments the scenarios draw.
Datasets == SeqsOf(1..MaxLength, 1, MaxN)
LenDiffs == (-1)..MaxLenDiff
Batchsizes == 1..MaxBatchsize

(***************************************************************************)
(* Scenario SpecBucket: a dataset exists, then a sampler is constructed   *)
(* over it.  The constructor's arguments are kept for the properties.     *)
(***************************************************************************)
InitBucket ==
    /\ pc = "data"
    /\ text_lengths \in Datasets
    /\ len_diff = Unused
    /\ sampler = Unused
    /\ baseline = Unused
    /\ gens = Unused
    /\ reshuffles = 0
    /\ NoCollate
    /\ NoLoader

Construct ==
    /\ pc = "data"
    /\ \E B \in Batchsizes, sh \in BOOLEAN, opt \in BOOLEAN, ld \in LenDiffs :
          /\ sampler' \in New(text_lengths, B, sh, opt, ld)
          /\ len_diff' = ld
          /\ baseline' = InitIdxs(text_lengths, opt, ld)
          /\ reshuffles' = IF sh THEN 1 ELSE 0
    /\ pc' = "constructed"
    /\ UNCHANGED <<text_lengths, gens, collateVars, loaderVars>>

NextBucket == Construct

SpecBucket == InitBucket /\ [][NextBucket]_vars

\* The records' indices in length-sorted order (line 78)
SortedIdxs == [i \in 1..Len(text_lengths) |-> sorted(lengths_idxs_pairs(text_lengths))[i][2]]

Bucketed == pc = "constructed" /\ sampler.optimize

LengthOf(idx) == text_lengths[idx + 1]

\* C1 (as claimed, for the non-empty windows len_diff >= 1): with bucketing
\* enabled the buckets formed at construction, flattened in their formed
\* order, contain each index 0..N-1 exactly once, also when the last record
\* of the length-sorted order falls outside the current window.
C1_BucketsPartition ==
    (Bucketed /\ len_diff >= 1) =>
        /\ NoDup(chain(sampler.optimized_idxs))
        /\ Range(chain(sampler.optimized_idxs)) = 0..(Len(text_lengths) - 1)

\* Every record of bucket b has its length in [m, m + len_diff), m the
\* length of b's first record.
InWindow(b) ==
    \A i \in 1..Len(b) :
        /\ LengthOf(b[1]) <= LengthOf(b[i])
        /\ LengthOf(b[i]) < LengthOf(b[1]) + len_diff

\* The buckets, one after the other, are a prefix of the length-sorted order.
ContiguousRuns(bs) == chain(bs) = SubSeq(SortedIdxs, 1, Len(chain(bs)))

\* A bucket is closed only when the next record is outside its window.
ClosedWhenForced(bs) ==
    \A k \in 2..Len(bs) :
        (bs[k - 1] # <<>> /\ bs[k] # <<>>) =>
            LengthOf(bs[k][1]) >= LengthOf(bs[k - 1][1]) + len_diff

\* C9 (as claimed): every bucket formed at construction is a contiguous run
\* of the length-sorted order whose lengths all lie in [m, m + len_diff), and
\* the first record of each later bucket has a length >= the previous
\* bucket's m + len_diff.
C9_BucketWindowAnyLenDiff ==
    Bucketed =>
        /\ ContiguousRuns(sampler.optimized_idxs)
        /\ \A k \in 1..Len(sampler.optimized_idxs) : InWindow(sampler.optimized_idxs[k])
        /\ ClosedWhenForced(sampler.optimized_idxs)

\* C9 (amended): for len_diff >= 1 the claim holds as stated, and no bucket is
\* empty; for len_diff <= 0 the window is empty, the first bucket formed is
\* empty and every later bucket holds exactly one record.
C9_BucketWindow ==
    Bucketed =>
        LET bs == sampler.optimized_idxs
        IN  /\ ContiguousRuns(bs)
            /\ ClosedWhenForced(bs)
            /\ len_diff >= 1 => \A k \in 1..Len(bs) : bs[k] # <<>> /\ InWindow(bs[k])
            /\ len_diff <= 0 => /\ bs[1] = <<>>
                                /\ \A k \in 2..Len(bs) : Len(bs[k]) = 1

\* C9 witness: two buckets were formed with a non-empty window, one of them
\* holding records of two different lengths.
C9_Witness ==
    /\ Bucketed
    /\ len_diff >= 1
    /\ Len(sampler.optimized_idxs) >= 2
    /\ \E k \in 1..Len(sampler.optimized_idxs) :
          \E i, j \in 1..Len(sampler.optimized_idxs[k]) :
              LengthOf(sampler.optimized_idxs[k][i]) # LengthOf(sampler.optimized_idxs[k][j])

(***************************************************************************)
(* Scenarios Spec and SpecIter: a constructed sampler is iterated.  A     *)
(* generator object g made by __iter__ (lines 104-109) is the record      *)
(*   st      "none" (no object), "created" (made, body not yet entered),  *)
(*           "suspended" (at the yield of line 106), "done" (returned),   *)
(*           "closed" (dropped before it returned)                        *)
(*   it      the sequence object the for loop of line 105 iterates        *)
(*   pos     how many elements of it the loop has consumed                *)
(*   cur     whether it is the object self.idxs references now            *)
(*   started history: the value of self.idxs when the body was entered    *)
(*   out     history: the indices yielded so far                          *)
(* The sampler keeps neither data_source nor len_diff, so these           *)
(* scenarios do not carry them.                                           *)
(***************************************************************************)
\* Two generator objects can be alive at a time.
GenIds == {1, 2}

NoGen == [st |-> "none", it |-> <<>>, pos |-> 0, cur |-> FALSE,
          started |-> <<>>, out |-> <<>>]

\* A sampler constructed over one of the datasets D, nothing iterating it.
Constructed(D) ==
    /\ pc = "ready"
    /\ text_lengths = Unused
    /\ len_diff = Unused
    /\ \E lengths \in D, B \in Batchsizes, sh \in BOOLEAN,
          opt \in BOOLEAN, ld \in LenDiffs :
          /\ sampler \in New(lengths, B, sh, opt, ld)
          /\ baseline = InitIdxs(lengths, opt, ld)
          /\ reshuffles = IF sh THEN 1 ELSE 0
    /\ gens = [g \in GenIds |-> NoGen]
    /\ NoCollate
    /\ NoLoader

Init == Constructed(SeqsOf(1..MaxLength, 1, MaxIterN))

InitShuffle == Constructed(Datasets)

\* __len__, lines 112-113
len(self) == Len(self.idxs)

\* AfterAssign when reshuffle overwrites the held list in place
\* (self.idxs[:] = idxs): a generator iterating that list sees the new order.
AfterAssignInPlace(gs, new) ==
    [g \in DOMAIN gs |-> IF gs[g].cur THEN [gs[g] EXCEPT !.it = new] ELSE gs[g]]

\* Line 133 binds self.idxs to a new object: no generator iterates it yet,
\* and the object a generator already iterates is left as it is.
AfterAssign(gs, new) == [g \in DOMAIN gs |-> [gs[g] EXCEPT !.cur = FALSE]]

\* EndOfPass without the test of self.shuffle.
EndOfPassAlways(self) == {<<r, 1>> : r \in reshuffle(self)}

\* Lines 108-109: the pairs <<value of self.idxs, reshuffle calls made>> the
\* end of the generator body can leave.
EndOfPass(self) ==
    IF self.shuffle THEN {<<r, 1>> : r \in reshuffle(self)} ELSE {<<self.idxs, 0>>}

\* Line 104: calling __iter__ makes a generator object; no line of the body runs.
Iter(g) ==
    /\ gens[g].st \in {"none", "done", "closed"}
    /\ gens' = [gens EXCEPT ![g] = [NoGen EXCEPT !.st = "created"]]
    /\ UNCHANGED <<text_lengths, len_diff, sampler, baseline, pc, reshuffles,
                   collateVars, loaderVars>>

\* The generator as next() finds it: a created one enters its body and
\* evaluates self.idxs at line 105.
Entered(g) ==
    IF gens[g].st = "created"
    THEN [gens[g] EXCEPT !.it = sampler.idxs, !.cur = TRUE, !.started = sampler.idxs]
    ELSE gens[g]

\* next(g) when the for loop has an element left: line 106 yields it.
Yield(g) ==
    /\ gens[g].st \in {"created", "suspended"}
    /\ LET e == Entered(g)
       IN  /\ e.pos < Len(e.it)
           /\ gens' = [gens EXCEPT ![g] = [e EXCEPT !.st = "suspended",
                                                    !.pos = e.pos + 1,
                                                    !.out = Append(e.out, e.it[e.pos + 1])]]
    /\ UNCHANGED <<text_lengths, len_diff, sampler, baseline, pc, reshuffles,
                   collateVars, loaderVars>>

\* next(g) when the for loop is exhausted: lines 108-109 run, the generator returns.
Exhaust(g) ==
    /\ gens[g].st \in {"created", "suspended"}
    /\ LET e == Entered(g)
       IN  /\ e.pos >= Len(e.it)
           /\ \E r \in EndOfPass(sampler) :
                 /\ reshuffles + r[2] <= MaxReshuffles
                 /\ reshuffles' = reshuffles + r[2]
                 /\ sampler' = [sampler EXCEPT !.idxs = r[1]]
                 /\ gens' = IF r[2] = 0
                            THEN [gens EXCEPT ![g] = [e EXCEPT !.st = "done"]]
                            ELSE [AfterAssign(gens, r[1]) EXCEPT
                                      ![g] = [e EXCEPT !.st = "done", !.cur = FALSE]]
    /\ UNCHANGED <<text_lengths, len_diff, baseline, pc, collateVars, loaderVars>>

\* The consumer drops the generator before it returned: the body never
\* reaches lines 108-109.
Close(g) ==
    /\ gens[g].st \in {"created", "suspended"}
    /\ gens' = [gens EXCEPT ![g] = [NoGen EXCEPT !.st = "closed"]]
    /\ UNCHANGED <<text_lengths, len_diff, sampler, baseline, pc, reshuffles,
                   collateVars, loaderVars>>

\* A direct call of reshuffle, lines 116-133.
Reshuffle ==
    /\ reshuffles < MaxReshuffles
    /\ \E r \in reshuffle(sampler) :
          /\ sampler' = [sampler EXCEPT !.idxs = r]
          /\ gens' = AfterAssign(gens, r)
    /\ reshuffles' = reshuffles + 1
    /\ UNCHANGED <<text_lengths, len_diff, baseline, pc, collateVars, loaderVars>>

NextIter ==
    \E g \in GenIds : Iter(g) \/ Yield(g) \/ Exhaust(g) \/ Close(g)

Next == NextIter \/ Reshuffle

\* Iteration and direct reshuffle calls, in every interleaving.
Spec == Init /\ [][Next]_vars

\* Reshuffle calls alone, over the larger datasets.
SpecShuffle == InitShuffle /\ [][Reshuffle]_vars

\* Iteration alone: the only reshuffles are those iteration triggers.
SpecIter == Init /\ [][NextIter]_vars

(***************************************************************************)
(* Properties of reshuffle and iteration.                                  *)
(***************************************************************************)
\* C2: with shuffle enabled, after construction and after every reshuffle
\* the held order has no index twice and only indices of the baseline order;
\* without bucketing it holds all N indices; with bucketing it holds all L
\* bucketed indices but L mod batchsize of them, so the reported length is
\* (L // batchsize) * batchsize at every epoch.
C2_ReshufflePreservesIndices ==
    sampler.shuffle =>
        LET L == Len(chain(sampler.optimized_idxs))
            B == sampler.batchsize
        IN  /\ NoDup(sampler.idxs)
            /\ Range(sampler.idxs) \subseteq Range(baseline)
            /\ ~sampler.optimize =>
                  /\ Range(sampler.idxs) = 0..(Len(baseline) - 1)
                  /\ len(sampler) = Len(baseline)
            /\ sampler.optimize =>
                  /\ Cardinality(Range(chain(sampler.optimized_idxs)) \ Range(sampler.idxs)) = L % B
                  /\ len(sampler) = (L \div B) * B

\* C2 witness: a bucketed, shuffled sampler after a reshuffle that followed
\* the one of construction, holding a truncated and non-empty order.
C2_Witness ==
    /\ sampler.shuffle
    /\ sampler.optimize
    /\ reshuffles >= 2
    /\ Len(chain(sampler.optimized_idxs)) % sampler.batchsize # 0
    /\ len(sampler) > 0

\* Generator g returns in this step.
PassEnds(g) == gens[g].st \in {"created", "suspended"} /\ gens'[g].st = "done"

\* Generator g enters its body in this step.
PassEnters(g) == gens[g].st = "created" /\ gens'[g].st \in {"suspended", "done"}

\* C3: iteration yields the held order index by index; a reshuffle is
\* triggered exactly once when a pass is consumed to its end and only if
\* shuffle is enabled; with shuffle disabled every pass yields the identical
\* order; a pass dropped before its end triggers no reshuffle and leaves the
\* order as it is.
C3_IterationReshuffle ==
    /\ [](\A g \in GenIds :
            /\ gens[g].st = "suspended" => gens[g].out = SubSeq(gens[g].started, 1, gens[g].pos)
            /\ gens[g].st = "done" => gens[g].out = gens[g].started
            /\ ~sampler.shuffle =>
                  /\ sampler.idxs = baseline
                  /\ gens[g].st \in {"suspended", "done"} => gens[g].started = baseline)
    /\ [][/\ \A g \in GenIds :
                /\ PassEnters(g) => gens'[g].started = sampler.idxs
                /\ PassEnds(g) =>
                      reshuffles' = reshuffles + (IF sampler.shuffle THEN 1 ELSE 0)
          /\ (~\E g \in GenIds : PassEnds(g) /\ sampler.shuffle) =>
                (reshuffles' = reshuffles /\ sampler' = sampler)]_vars

\* C3 witness: with shuffle enabled one pass was consumed to its end over a
\* non-empty order, which made the second reshuffle call, and another pass
\* was dropped.
C3_Witness ==
    /\ sampler.shuffle
    /\ reshuffles = 2
    /\ gens[1].st = "done"
    /\ Len(gens[1].out) >= 2
    /\ gens[2].st = "closed"

\* C10: a pass whose body was entered yields, in full and in order, the
\* order the sampler held when it was entered, whatever reshuffles happen
\* while it is in progress.
C10_PassKeepsItsOrder ==
    \A g \in GenIds :
        /\ gens[g].st = "suspended" =>
              /\ gens[g].pos <= Len(gens[g].started)
              /\ gens[g].out = SubSeq(gens[g].started, 1, gens[g].pos)
        /\ gens[g].st = "done" => gens[g].out = gens[g].started

\* C10 witness: a pass is in the middle of its order while the sampler has
\* been reshuffled to a different order since the pass was entered.
C10_Witness ==
    \E g \in GenIds :
        /\ gens[g].st = "suspended"
        /\ gens[g].pos >= 1
        /\ gens[g].pos < Len(gens[g].started)
        /\ ~gens[g].cur
        /\ gens[g].started # sampler.idxs

(***************************************************************************)
(* TextMelCollate.__call__ (lines 302-377).                                *)
(*                                                                         *)
(* An example is the tuple get_data returns, as a record: text (symbol    *)
(* ids), mel (one entry per time frame; the channel axis, which collate   *)
(* copies whole, is folded into the entry), alignment (optional array of  *)
(* mel_time rows by symbol_len columns) and ctc_text (optional sequence). *)
(* The k-th example of a batch is filled with values that name k and the  *)
(* position, all non-zero, so that a padded row shows whose data it holds *)
(* and where.  Positions in a batch are 1-based here.                     *)
(***************************************************************************)
Tagged(k, n) == [j \in 1..n |-> 10 * k + j]

TaggedArray(k, rows, cols) == [t \in 1..rows |-> [c \in 1..cols |-> 100 * k + 10 * t + c]]

\* The examples with n symbols and m mel frames at position k of a batch.
ExamplesOfShape(k, n, m) ==
    {[text |-> Tagged(k, n), mel |-> Tagged(k, m), alignment |-> a, ctc_text |-> c] :
        a \in {None, Some(TaggedArray(k, m, n))},
        c \in {None} \cup {Some(Tagged(k, l)) : l \in 1..MaxCtcLen}}

\* The examples that can stand at position k of a batch.
ExamplesAt(k) ==
    UNION {ExamplesOfShape(k, n, m) : n \in 1..MaxSymLen, m \in 1..MaxMelLen}

Max(S) == CHOOSE x \in S : \A y \in S : y <= x

\* A row right-padded with zeros to length n
PadRow(row, n) == row \o [j \in 1..(n - Len(row)) |-> 0]

\* A zero array of the given shape
Zeros(rows, cols) == [t \in 1..rows |-> [c \in 1..cols |-> 0]]

\* NotAnyNone with all() in the place of any().
NotAllNone(b, f) == \E k \in 1..Len(b) : b[k][f] # None

\* line 309 (and 310 for field ctc_text): not any(elem[f] is None for elem in batch)
NotAnyNone(b, f) == ~\E k \in 1..Len(b) : b[k][f] = None

\* lines 314-316: every index order torch.sort(descending=True) can return
\* (it is not a stable sort: equal lengths may come in either order)
ids_sorted_decreasing(b) ==
    {p \in Permutations(1..Len(b)) :
        \A i \in 1..(Len(b) - 1) : Len(b[p[i]].text) >= Len(b[p[i + 1]].text)}

\* ExampleOfRow taking the example at the row's own position.
ExampleOfRowUnsorted(b, ids, i) == b[i]

\* lines 347-348: the example copied into row i
ExampleOfRow(b, ids, i) == b[ids[i]]

\* GateRow setting the ones from index target_len on.
GateRowAfterEnd(target_len, max_target_len) ==
    [t \in 1..max_target_len |-> IF t - 1 >= target_len THEN 1 ELSE 0]

\* lines 327-328 and 356: a zero row with gate[target_len - 1:] = 1
\* (a negative slice start counts from the end and is clipped at 0)
GateRow(target_len, max_target_len) ==
    LET start == IF target_len - 1 >= 0 THEN target_len - 1
                 ELSE IF max_target_len + target_len - 1 >= 0
                      THEN max_target_len + target_len - 1 ELSE 0
    IN  [t \in 1..max_target_len |-> IF t - 1 >= start THEN 1 ELSE 0]

\* lines 332-333 and 359: a zero array with the alignment in its top-left block
AlignmentRow(alignment, max_target_len, max_input_len) ==
    [t \in 1..max_target_len |->
        IF t <= Len(alignment) THEN PadRow(alignment[t], max_input_len)
        ELSE PadRow(<<>>, max_input_len)]

\* What the call returns for the index order ids.  In the first row whose
\* example lacks a field that the flags say is there, assigning None into the
\* tensor slice raises TypeError (line 359), and None.size raises
\* AttributeError (line 362).
collate(b, ids) ==
    LET get_alignment == NotAnyNone(b, "alignment")
        get_ctc_text == NotAnyNone(b, "ctc_text")
        batchsize == Len(b)
        input_lengths == [i \in 1..batchsize |-> Len(b[ids[i]].text)]
        max_input_len == input_lengths[1]
        max_target_len == Max({Len(b[k].mel) : k \in 1..batchsize})
        row(i) == ExampleOfRow(b, ids, i)
        rows == 1..batchsize
        failing == {i \in rows : \/ get_alignment /\ row(i).alignment = None
                                 \/ get_ctc_text /\ row(i).ctc_text = None}
    IN  IF failing # {}
        THEN LET first == CHOOSE i \in failing : \A j \in failing : i <= j
             IN  [raised |-> IF get_alignment /\ row(first).alignment = None
                             THEN "TypeError" ELSE "AttributeError"]
        ELSE [raised |-> "",
              inputs |-> [text     |-> [i \in rows |-> PadRow(row(i).text, max_input_len)],
                          mels     |-> [i \in rows |-> PadRow(row(i).mel, max_target_len)],
                          gate     |-> [i \in rows |-> GateRow(Len(row(i).mel), max_target_len)],
                          text_len |-> input_lengths,
                          mel_len  |-> [i \in rows |-> Len(row(i).mel)]],
              alignments_padded |->
                  IF get_alignment
                  THEN Some([i \in rows |->
                            AlignmentRow(row(i).alignment[1], max_target_len, max_input_len)])
                  ELSE None,
              inputs_ctc |->
                  IF get_ctc_text
                  THEN LET max_ctc_text_len == Max({Len(b[k].ctc_text[1]) : k \in rows})
                       IN  Some([text   |-> [i \in rows |->
                                               PadRow(row(i).ctc_text[1], max_ctc_text_len)],
                                 length |-> [i \in rows |-> Len(row(i).ctc_text[1])]])
                  ELSE None]

(***************************************************************************)
(* Scenario SpecCollate: the data-loading harness gathers examples into a  *)
(* batch and gives the batch to the collator.                             *)
(***************************************************************************)
InitCollate ==
    /\ pc = "batch"
    /\ batch = <<>>
    /\ collated = Unused
    /\ NoSampler
    /\ NoLoader

\* The harness appends the next example to the batch.
AddExample ==
    /\ pc = "batch"
    /\ Len(batch) < MaxBatchLen
    /\ \E e \in ExamplesAt(Len(batch) + 1) : batch' = Append(batch, e)
    /\ UNCHANGED <<pc, collated, samplerVars, loaderVars>>

Collate ==
    /\ pc = "batch"
    /\ batch # <<>>
    /\ \E ids \in ids_sorted_decreasing(batch) : collated' = collate(batch, ids)
    /\ pc' = "collated"
    /\ UNCHANGED <<batch, samplerVars, loaderVars>>

NextCollate == AddExample \/ Collate

SpecCollate == InitCollate /\ [][NextCollate]_vars

(***************************************************************************)
(* Properties of the collator.                                             *)
(***************************************************************************)
Returned == pc = "collated" /\ collated.raised = ""

\* row is s followed by zeros, n entries in all
IsPadded(row, s, n) ==
    /\ Len(row) = n
    /\ Len(s) <= n
    /\ \A j \in 1..n : row[j] = IF j <= Len(s) THEN s[j] ELSE 0

MaxSymbolLen == Max({Len(batch[k].text) : k \in 1..Len(batch)})
MaxMelTime == Max({Len(batch[k].mel) : k \in 1..Len(batch)})

\* Every row of the text output starts with the first symbol of an example
\* of the batch, and no two rows with that of the same example.  The
\* examples' values differ, so a row names the example it was filled from.
RowsNameExamples ==
    /\ Len(collated.inputs.text) = Len(batch)
    /\ \A i \in 1..Len(batch) :
          /\ Len(collated.inputs.text[i]) >= 1
          /\ \E k \in 1..Len(batch) : batch[k].text[1] = collated.inputs.text[i][1]
    /\ \A i, j \in 1..Len(batch) :
          collated.inputs.text[i][1] = collated.inputs.text[j][1] => i = j

\* The example row i was filled from
Owner(i) == batch[CHOOSE k \in 1..Len(batch) : batch[k].text[1] = collated.inputs.text[i][1]]

C5_GateTrailingOnes ==
    pc = "collated" =>
        /\ collated.raised = ""
        /\ RowsNameExamples
        /\ Len(collated.inputs.gate) = Len(batch)
        /\ LET max_len == MaxMelTime
           IN  \A i \in 1..Len(batch) :
                  LET L == Len(Owner(i).mel)
                      gate == collated.inputs.gate[i]
                  IN  /\ Len(gate) = max_len
                      /\ \A f \in 0..(max_len - 1) :
                            gate[f + 1] = IF f <= L - 2 THEN 0 ELSE 1

\* C5 witness: a collated batch with a row that ends at the batch maximum
\* (a zero, then the one of its last frame) and a shorter row whose run of
\* ones extends over its padding.
C5_Witness ==
    /\ Returned
    /\ \E i, j \in 1..Len(batch) :
          /\ collated.inputs.mel_len[i] = MaxMelTime
          /\ collated.inputs.mel_len[i] >= 2
          /\ collated.inputs.mel_len[j] < MaxMelTime

\* C6: the alignment output is present iff no example lacks an alignment;
\* when present, row i holds its example's alignment in the top-left
\* (mel_len x symbol_len) block of a (max mel time x max symbol length) array
\* and zeros elsewhere; the auxiliary text output is present iff no example
\* lacks an auxiliary sequence, whatever the alignments are.
C6_AllOrNothing ==
    pc = "collated" =>
        /\ collated.raised = ""
        /\ (collated.alignments_padded # None) <=>
              (\A k \in 1..Len(batch) : batch[k].alignment # None)
        /\ (collated.inputs_ctc # None) <=>
              (\A k \in 1..Len(batch) : batch[k].ctc_text # None)
        /\ collated.alignments_padded # None =>
              /\ RowsNameExamples
              /\ Len(collated.alignments_padded[1]) = Len(batch)
              /\ LET maxsym == MaxSymbolLen
                     maxmel == MaxMelTime
                 IN  \A i \in 1..Len(batch) :
                        LET padded == collated.alignments_padded[1][i]
                            own == Owner(i).alignment[1]
                        IN  /\ Len(padded) = maxmel
                            /\ \A t \in 1..maxmel :
                                  IsPadded(padded[t],
                                           IF t <= Len(Owner(i).mel) THEN own[t] ELSE <<>>,
                                           maxsym)

\* C6 witness: a collated batch in which one example has an alignment and
\* another has none, while every example has an auxiliary sequence.
C6_Witness ==
    /\ Returned
    /\ \E j, k \in 1..Len(batch) : batch[j].alignment = None /\ batch[k].alignment # None
    /\ \A k \in 1..Len(batch) : batch[k].ctc_text # None
    /\ collated.alignments_padded = None
    /\ collated.inputs_ctc # None

(***************************************************************************)
(* TextMelLoader.get_data (lines 192-216) and what it calls.               *)
(*                                                                         *)
(* hparams holds the fields of the loader that get_data reads.  A flag    *)
(* that is a boolean or a probability is a percentage: 0 is False, 100 is *)
(* True.  sample holds what the services return for the record: the       *)
(* symbol sequence of the text handler and the mel of get_mel (None when  *)
(* get_mel raises: lines 234-235, 272-274, or the file cannot be read).   *)
(* What np.load finds in the alignment store is drawn when it is called.  *)
(***************************************************************************)
Probabilities == {0, 50, 100}

\* tps.utils.prob2bool as called at lines 182-183: every value it can return
prob2bool(p) == IF p = 0 THEN {FALSE} ELSE IF p = 100 THEN {TRUE} ELSE BOOLEAN

\* Python truth value of a flag
Truthy(p) == p # 0

\* _get_sress_phonemes, lines 180-188: the pairs <<stress, phonemes>> it can
\* return, as the truth values the rest of the file reads.
get_sress_phonemes(hp) ==
    IF ~hp.word_level_prob
    THEN {<<st, ph>> : st \in prob2bool(hp.stress), ph \in prob2bool(hp.phonemes)}
    ELSE {<<Truthy(hp.stress), Truthy(hp.phonemes)>>}

\* The symbol sequence of n symbols the text handler returns: letters (1)
\* alternate with symbols that are no letters (2).
SequenceOf(n) == [j \in 1..n |-> ((j - 1) % 2) + 1]

\* lines 292-294: the symbols that have an id in ctc_symbol_to_id are
\* re-encoded, the others dropped.  Letter 1 has CTC id 0.
get_ctc_text(sequence) ==
    LET IsLetter(x) == x = 1
        kept == SelectSeq(sequence, IsLetter)
    IN  [j \in 1..Len(kept) |-> 0]

\* alignment.shape of a 2-D array with at least one row
Shape(a) == <<Len(a), Len(a[1])>>

\* The 2-D arrays a file of sub-directory sub_dir can hold
StoredArrays(sub_dir) ==
    {TaggedArray(IF sub_dir = "original" THEN 1 ELSE 2, r, c) :
        r \in 1..MaxMelLen, c \in 1..MaxSymLen}

\* get_alignment, lines 279-289: every result of the call, as the record of
\* the sub-directory read ("" when the store is not read), whether np.load
\* raised, and the value returned.
get_alignment(stress, phonemes) ==
    IF phonemes
    THEN {[sub_dir |-> "", raised |-> FALSE, value |-> None]}
    ELSE LET sub_dir == IF ~stress THEN "original" ELSE "stressed"
         IN  {[sub_dir |-> sub_dir, raised |-> TRUE, value |-> None]}
             \cup {[sub_dir |-> sub_dir, raised |-> FALSE, value |-> Some(a)] :
                      a \in StoredArrays(sub_dir)}

\* torch.FloatTensor(alignment), line 210: every entry becomes a float32.
\* An integer of magnitude at most 2^24 is kept exactly.
Float32(x) == IF x <= 16777216 /\ x >= -16777216 THEN x ELSE 2 * (x \div 2)

FloatTensor(a) == [t \in 1..Len(a) |-> [c \in 1..Len(a[t]) |-> Float32(a[t][c])]]

\* Placeholder with the two axes exchanged.
PlaceholderTransposed(mel, sequence) == Zeros(Len(sequence), Len(mel))

\* line 208: np.zeros(shape=(mel.shape[1], sequence.shape[0]))
Placeholder(mel, sequence) == Zeros(Len(mel), Len(sequence))

Raised(exc, stress, phonemes, got) ==
    [raised |-> exc, stress |-> stress, phonemes |-> phonemes, load |-> got,
     printed |-> FALSE, sequence |-> None, mel |-> None, alignment |-> None,
     ctc_sequence |-> None]

NoLoad == [sub_dir |-> "", raised |-> FALSE, value |-> None]

\* lines 199-210, for one result got of get_alignment: the alignment bound
\* at line 210, or the exception raised before.
AlignmentOf(sequence, mel, got) ==
    IF got.raised THEN [raised |-> "IOError", printed |-> FALSE, alignment |-> None]
    ELSE IF got.value = None
    THEN \* line 204 is true; line 207 evaluates alignment.shape of None
         [raised |-> "AttributeError", printed |-> FALSE, alignment |-> None]
    ELSE IF <<Len(mel), Len(sequence)>> # Shape(got.value[1])
    THEN [raised |-> "", printed |-> TRUE,
          alignment |-> Some(FloatTensor(Placeholder(mel, sequence)))]
    ELSE [raised |-> "", printed |-> FALSE, alignment |-> Some(FloatTensor(got.value[1]))]

\* get_data, lines 192-216: every outcome of the call.
get_data(hp, smp) ==
    UNION {
        LET stress == sp[1]
            phonemes == sp[2]
            sequence == smp.sequence
            ctc_sequence == IF hp.use_mmi THEN Some(get_ctc_text(sequence)) ELSE None
        IN  IF smp.mel = None THEN {Raised("MelError", stress, phonemes, NoLoad)}
            ELSE IF ~hp.get_alignments
            THEN {[raised |-> "", stress |-> stress, phonemes |-> phonemes,
                   load |-> NoLoad, printed |-> FALSE, sequence |-> Some(sequence),
                   mel |-> smp.mel, alignment |-> None, ctc_sequence |-> ctc_sequence]}
            ELSE IF ~(~hp.word_level_prob /\ ~hp.add_silence)
            THEN {Raised("AssertionError", stress, phonemes, NoLoad)}
            ELSE {LET a == AlignmentOf(sequence, smp.mel[1], got)
                  IN  IF a.raised # "" THEN Raised(a.raised, stress, phonemes, got)
                      ELSE [raised |-> "", stress |-> stress, phonemes |-> phonemes,
                            load |-> got, printed |-> a.printed,
                            sequence |-> Some(sequence), mel |-> smp.mel,
                            alignment |-> a.alignment, ctc_sequence |-> ctc_sequence]
                  : got \in get_alignment(stress, phonemes)}
        : sp \in get_sress_phonemes(hp)}

(***************************************************************************)
(* Scenario SpecLoader: a loader is configured, a record is fetched.      *)
(***************************************************************************)
InitLoader ==
    /\ pc = "loader"
    /\ hparams \in [get_alignments : BOOLEAN, word_level_prob : BOOLEAN,
                    add_silence : BOOLEAN, use_mmi : BOOLEAN,
                    stress : Probabilities, phonemes : Probabilities]
    /\ sample = Unused
    /\ outcome = Unused
    /\ NoSampler
    /\ NoCollate

\* __getitem__, lines 172-173, for a record whose text has n symbols and
\* whose audio gives the mel m
GetItem ==
    /\ pc = "loader"
    /\ \E n \in 1..MaxSymLen, m \in {None} \cup {Some(Tagged(2, t)) : t \in 1..MaxMelLen} :
          /\ sample' = [sequence |-> SequenceOf(n), mel |-> m]
          /\ outcome' \in get_data(hparams, sample')
    /\ pc' = "fetched"
    /\ UNCHANGED <<hparams, samplerVars, collateVars>>

NextLoader == GetItem

SpecLoader == InitLoader /\ [][NextLoader]_vars

(***************************************************************************)
(* Properties of the assembler.                                            *)
(***************************************************************************)
Fetched == pc = "fetched"

ExpectedShape == <<Len(sample.mel[1]), Len(sample.sequence)>>

\* C7: with alignment mode enabled and the phonemes flag false, whenever the
\* array loaded from the store has a shape other than (mel_time, symbol_len)
\* get_data does not raise and returns a zero array of exactly that shape;
\* when the shape matches, the loaded array is returned; hence every
\* alignment of a returned example has shape (mel_time, symbol_len).
C7_ShapeMismatchZeroFilled ==
    Fetched =>
        /\ outcome.load.value # None =>
              /\ hparams.get_alignments
              /\ ~outcome.phonemes
              /\ outcome.raised = ""
              /\ outcome.alignment # None
              /\ Shape(outcome.load.value[1]) # ExpectedShape =>
                    /\ Shape(outcome.alignment[1]) = ExpectedShape
                    /\ \A t \in 1..ExpectedShape[1], c \in 1..ExpectedShape[2] :
                          outcome.alignment[1][t][c] = 0
              /\ Shape(outcome.load.value[1]) = ExpectedShape =>
                    outcome.alignment[1] = outcome.load.value[1]
        /\ (outcome.raised = "" /\ outcome.alignment # None) =>
              Shape(outcome.alignment[1]) = ExpectedShape

\* C7 witness: an array was loaded whose shape differs from that of the
\* example in both axes, and the example was returned.
C7_Witness ==
    /\ Fetched
    /\ outcome.load.value # None
    /\ outcome.raised = ""
    /\ Shape(outcome.load.value[1])[1] # ExpectedShape[1]
    /\ Shape(outcome.load.value[1])[2] # ExpectedShape[2]
    /\ ExpectedShape[1] # ExpectedShape[2]

\* C8 (as claimed, for the configurations that pass the assertion of line
\* 201 and the records whose mel is read): with alignment mode enabled and
\* the phonemes flag resolved true, the store is not read, get_data does not
\* raise, and the returned alignment is the zero array of shape
\* (mel_time, symbol_len).
C8_PhonemeModeZeroFilled ==
    (/\ Fetched
     /\ hparams.get_alignments
     /\ ~hparams.word_level_prob
     /\ ~hparams.add_silence
     /\ sample.mel # None
     /\ outcome.phonemes) =>
        /\ outcome.load.sub_dir = ""
        /\ outcome.raised = ""
        /\ outcome.alignment = Some(Zeros(ExpectedShape[1], ExpectedShape[2]))

====
